---- MODULE Spec2Model ----
(***************************************************************************)
(* Model of the phylogenetic tree viewer (my_phylogeny.py / phyli.py).     *)
(*                                                                         *)
(* generate_elements lays a rooted tree out as a dendrogram and converts   *)
(* it to Cytoscape nodes and edges; the Dash callbacks color_children      *)
(* (hover) and save_to_folder (export) then serve the computed graph.      *)
(*                                                                         *)
(* A clade is named by its path from the root: the sequence of 0-based     *)
(* child indexes (the n of "for n, child in enumerate(children)").  The    *)
(* root is << >>.  A tree is a record                                      *)
(*     shape : the set of its clades' paths                                *)
(*     bl    : clade -> branch_length (0 stands for None and for 0, which  *)
(*             the code cannot tell apart: "c.branch_length or 0")         *)
(*     name  : clade -> length of clade.name (0 stands for no name)        *)
(* color_children and the stylesheet are those of my_phylogeny.py,         *)
(* save_to_folder is the one of phyli.py; generate_elements is the same in *)
(* both files.                                                             *)
(* Identifiers are sequences of one-character strings, so that string      *)
(* concatenation, str(n), split("s") and substring matching are computed   *)
(* on characters.                                                          *)
(***************************************************************************)
EXTENDS Integers, Sequences, FiniteSets, TLC

\* ------------------------------------------------------------------ bounds

\* Every ordered tree shape of at most MaxClades clades is an input.
MaxClades == 5
\* Shapes of at most MaxWeighted clades are taken with every branch-length
\* and first-leaf-name assignment.
MaxWeighted == 3
\* Fan trees: a root of ten to MaxFan children, up to two of them with a child.
MaxFan == 11
\* The save button is clicked at most MaxClicks times.
MaxClicks == 2

\* branch lengths a clade may carry (0: unset or zero)
BranchLens == {0, 1, 2}
\* lengths of the name of the first leaf (0: no name; 90: longer than a line);
\* the names of the other leaves are one character long
NameLens == {0, 90}

\* ------------------------------------------------------- program constants

column_width == 80
xlen == 30
ylen == 30
\* len(highlight_names)
NumHighlight == 28

\* ----------------------------------------------------------------- trees

Root == << >>

IsPrefix(p, q) == Len(p) <= Len(q) /\ SubSeq(q, 1, Len(p)) = p

\* clade.clades, as the number of children: the children are p \o <<0>>, ...
NumChildren(shape, p) ==
    Cardinality({q \in shape : Len(q) = Len(p) + 1 /\ IsPrefix(p, q)})

Child(p, n) == Append(p, n)

Parent(p) == SubSeq(p, 1, Len(p) - 1)

\* clade.is_terminal(): a clade with no children
is_terminal(shape, p) == NumChildren(shape, p) = 0

\* every shape with exactly k clades, grown by giving some clade a new last child
RECURSIVE ShapesOfSize(_)
ShapesOfSize(k) ==
    IF k = 1 THEN {{Root}}
    ELSE UNION {{s \cup {Child(p, NumChildren(s, p))} : p \in s}
                : s \in ShapesOfSize(k - 1)}

Shapes(maxk) == UNION {ShapesOfSize(k) : k \in 1..maxk}

\* a root of f children, of which the children in inner have one child each
FanShape(f, inner) ==
    {Root} \cup {<<i>> : i \in 0..(f - 1)} \cup {<<i, 0>> : i \in inner}

\* the fans of ten children and more (the child indexes of two digits)
FanShapes ==
    UNION {{FanShape(f, {})} \cup {FanShape(f, {i, j}) : i, j \in 0..(f - 1)}
           : f \in 10..MaxFan}

\* the trees given to generate_elements
PlainTree(shape) ==
    [shape |-> shape, bl |-> [p \in shape |-> 0],
     name |-> [p \in shape |-> IF is_terminal(shape, p) THEN 1 ELSE 0]]

\* tree.get_terminals(): the leaves below p in preorder, children in stored order
RECURSIVE TerminalsFrom(_, _, _)
RECURSIVE TerminalsBelow(_, _)
TerminalsBelow(shape, p) ==
    IF is_terminal(shape, p) THEN <<p>> ELSE TerminalsFrom(shape, p, 0)
TerminalsFrom(shape, p, n) ==
    IF n >= NumChildren(shape, p) THEN << >>
    ELSE TerminalsBelow(shape, Child(p, n)) \o TerminalsFrom(shape, p, n + 1)

get_terminals(t) == TerminalsBelow(t.shape, Root)

FirstLeaf(shape) == TerminalsBelow(shape, Root)[1]

WeightedTrees ==
    UNION {{[shape |-> shape, bl |-> b,
             name |-> [p \in shape |-> IF p = FirstLeaf(shape) THEN l
                                       ELSE IF is_terminal(shape, p) THEN 1 ELSE 0]]
            : b \in [shape -> BranchLens], l \in NameLens}
           : shape \in Shapes(MaxWeighted)}

TreeSet ==
    {PlainTree(s) : s \in Shapes(MaxClades) \cup FanShapes} \cup WeightedTrees

\* clade.confidence.value: 1 on the clades at odd depth, none (0) elsewhere
Confidence(p) == Len(p) % 2

\* ------------------------------------------------------- column positions

\* len(str(taxon)): Clade.__str__ is the name, cut to 37 characters and "..."
\* when longer than 40, and the class name "Clade" for a clade without a name
LabelWidth(namelen) ==
    IF namelen = 0 THEN 5 ELSE IF namelen > 40 THEN 40 ELSE namelen

SetMax(S) == CHOOSE x \in S : \A y \in S : y <= x

\* max(len(str(taxon)) for taxon in taxa)
max_label_width(t) ==
    LET taxa == get_terminals(t)
    IN  SetMax({LabelWidth(t.name[taxa[i]]) : i \in 1..Len(taxa)})

drawing_width(t) == column_width - max_label_width(t) - 1

\* tree.depths(): the root's own branch length, plus the branch lengths down to p
RECURSIVE PathLength(_, _)
PathLength(t, p) ==
    IF p = Root THEN t.bl[Root] ELSE PathLength(t, Parent(p)) + t.bl[p]

\* tree.depths(unit_branch_lengths=True): every branch below the root counts 1
UnitPathLength(t, p) == t.bl[Root] + Len(p)

\* max(depths.values()) of tree.depths()
MaxPathLength(t) == SetMax({PathLength(t, p) : p \in t.shape})

\* "if not max(depths.values()): depths = tree.depths(unit_branch_lengths=True)"
depths(t, p) ==
    IF MaxPathLength(t) = 0 THEN UnitPathLength(t, p) ELSE PathLength(t, p)

max_depth(t) == SetMax({depths(t, p) : p \in t.shape})

\* int(math.ceil(math.log(k, 2))): the least m with 2^m >= k (math.log is exact
\* at the powers of two the trees here reach)
RECURSIVE CeilLog2From(_, _)
CeilLog2From(k, m) == IF 2 ^ m >= k THEN m ELSE CeilLog2From(k, m + 1)

fudge_margin(t) == CeilLog2From(Len(get_terminals(t)), 0)

\* int(a / b) for b > 0: Python's int() cuts towards zero
TruncDiv(a, b) == IF a >= 0 THEN a \div b ELSE -((-a) \div b)

\* the numerator of cols_per_branch_unit; its denominator is max_depth
\* variant: the subtraction the other way round
ScaleNegated(t) == fudge_margin(t) - drawing_width(t)
cols_per_branch_unit_num(t) == drawing_width(t) - fudge_margin(t)

\* int(blen * cols_per_branch_unit + 1.0), in exact arithmetic: the floats of
\* the code round, and rounding keeps the order of the columns
col_position(t, p) ==
    TruncDiv(depths(t, p) * cols_per_branch_unit_num(t) + max_depth(t), max_depth(t))

\* get_col_positions divides by max(depths.values()) with no guard
ColDividesByZero(t) == max_depth(t) = 0

get_col_positions(t) == [p \in t.shape |-> col_position(t, p)]

\* ---------------------------------------------------------- row positions

\* variant: the leaves on consecutive rows
LeafRowUnspaced(idx) == idx
\* "positions = dict((taxon, 2 * idx) for idx, taxon in enumerate(taxa))"
LeafRow(idx) == 2 * idx

LeafPositions(t) ==
    LET taxa == get_terminals(t)
    IN  [p \in {taxa[i] : i \in 1..Len(taxa)} |->
            LeafRow((CHOOSE i \in 1..Len(taxa) : taxa[i] = p) - 1)]

\* variant: the midpoint rounded up
MidRowRoundedUp(first, last) == (first + last + 1) \div 2
\* "(positions[clade.clades[0]] + positions[clade.clades[-1]]) // 2"
MidRow(first, last) == (first + last) \div 2

\* ------------------------------------------------------------ identifiers

\* None, a missing key of a dict or a missing attribute is the empty sequence,
\* and a value v that is present the sequence <<v>>
None == << >>
Some(v) == <<v>>

NoError == "None"

Digits == <<"0", "1", "2", "3", "4", "5", "6", "7", "8", "9">>

\* str(n) for n >= 0: the decimal digits, no leading zero
RECURSIVE Str(_)
Str(n) == IF n < 10 THEN <<Digits[n + 1]>>
          ELSE Str(n \div 10) \o <<Digits[(n % 10) + 1]>>

\* variant: no "s" before the index
SupportIdUnmarked(clade_id, n) == clade_id \o Str(n)
\* support_id = clade_id + "s" + str(n)
SupportId(clade_id, n) == clade_id \o <<"s">> \o Str(n)

\* child_id = clade_id + "c" + str(n)
ChildId(clade_id, n) == clade_id \o <<"c">> \o Str(n)

\* the identifier add_to_elements reaches clade p with, from "r" at the root
RECURSIVE CladeId(_)
CladeId(p) == IF p = Root THEN <<"r">>
              ELSE ChildId(CladeId(Parent(p)), p[Len(p)])

\* ---------------------------------------------------------------- elements

\* cy_source, with the name and class of a terminal clade already set
CySource(t, cols, rows, p, clade_id) ==
    [id |-> clade_id,
     x |-> cols[p] * xlen,
     y |-> rows[p] * ylen,
     classes |-> IF is_terminal(t.shape, p) THEN "terminal" ELSE "nonterminal",
     name |-> IF is_terminal(t.shape, p) /\ t.name[p] # 0 THEN Some(t.name[p]) ELSE None,
     confidence |-> None,
     grabbable |-> FALSE]

\* variant: the row of the parent clade
SupportRowOfParent(rows, p, n) == rows[p] * ylen
\* pos_y_child = row_positions[child] * ylen
pos_y_child(rows, p, n) == rows[Child(p, n)] * ylen

\* cy_support_node
CySupportNode(cols, rows, p, clade_id, n) ==
    [id |-> SupportId(clade_id, n),
     x |-> cols[p] * xlen,
     y |-> pos_y_child(rows, p, n),
     classes |-> "support",
     name |-> None,
     confidence |-> None,
     grabbable |-> FALSE]

\* cy_support_edge
CySupportEdge(clade_id, n) ==
    [source |-> clade_id,
     target |-> SupportId(clade_id, n),
     length |-> None,
     sourceCladeId |-> clade_id]

\* cy_edge; the length of a clade whose branch length is unset is None
CyEdge(t, p, clade_id, n) ==
    [source |-> SupportId(clade_id, n),
     target |-> ChildId(clade_id, n),
     length |-> IF t.bl[p] # 0 THEN Some(t.bl[p]) ELSE None,
     sourceCladeId |-> clade_id]

\* "if clade.confidence and clade.confidence.value:" sets the confidence of the
\* cy_source dict, which is already in the node list
WithConfidence(ns, idx, p) ==
    IF Confidence(p) # 0
    THEN [ns EXCEPT ![idx] = [@ EXCEPT !.confidence = Some(Confidence(p))]]
    ELSE ns

\* variant: the support node is not appended
NodesWithoutSupport(ns, support, source) == Append(ns, source)
\* nodes.append(cy_support_node), then the child's call: nodes.append(cy_source)
NodesAfterChild(ns, support, source) == Append(Append(ns, support), source)

\* ------------------------------------------------------------- stylesheet

\* a selector is its form and, where it has one, the quoted string
Selector(form, arg) == [form |-> form, arg |-> arg]

\* the four base rules
BaseStylesheet ==
    <<[selector |-> Selector(".nonterminal", << >>), style |-> "confidence label"],
      [selector |-> Selector(".support", << >>), style |-> "transparent"],
      [selector |-> Selector("edge", << >>), style |-> "endpoints inside"],
      [selector |-> Selector(".terminal", << >>), style |-> "name label"]>>

\* "for name in highlight_names: stylesheet.append(...)": the names are written
\* by their place in the list
HighlightRules ==
    [i \in 1..NumHighlight |->
        [selector |-> Selector("[name = ]", Str(i)), style |-> "red"]]

ModuleStylesheet == BaseStylesheet \o HighlightRules

\* whether sub occurs in s as a run of consecutive characters
Contains(s, sub) ==
    \E k \in 0..(Len(s) - Len(sub)) : SubSeq(s, k + 1, k + Len(sub)) = sub

\* s.split("s")[0]: the characters before the first "s" (all of s without one)
RECURSIVE SplitFirst(_)
SplitFirst(s) ==
    IF s = << >> \/ Head(s) = "s" THEN << >> ELSE <<Head(s)>> \o SplitFirst(Tail(s))

\* val of color_children
HoverVal(source) == IF Contains(source, <<"s">>) THEN SplitFirst(source) ELSE source

ChildrenStyle(source) ==
    [selector |-> Selector("edge[source *= ]", HoverVal(source)), style |-> "blue"]

\* variant: stylesheet.append(...) on the module's list
color_children_appending(sheet, edgeData) ==
    IF edgeData = None THEN [ret |-> sheet, shared |-> sheet]
    ELSE [ret |-> Append(sheet, ChildrenStyle(edgeData[1].source)),
          shared |-> Append(sheet, ChildrenStyle(edgeData[1].source))]
\* color_children: what it returns, and the module's stylesheet list afterwards
color_children(sheet, edgeData) ==
    IF edgeData = None THEN [ret |-> sheet, shared |-> sheet]
    ELSE [ret |-> sheet \o <<ChildrenStyle(edgeData[1].source)>>, shared |-> sheet]

\* whether a rule's selector matches an edge: "edge" matches every edge,
\* edge[source *= "v"] those whose source contains v
RuleMatchesEdge(rule, e) ==
    \/ rule.selector.form = "edge"
    \/ /\ rule.selector.form = "edge[source *= ]"
       /\ Contains(e.source, rule.selector.arg)

\* ------------------------------------------------------------------ export

\* html_content: the page with {elements} and {stylesheet} filled in
HtmlContent(els, sheet) ==
    [title |-> "Phylogenetic Tree", elements |-> els, style |-> sheet,
     layout |-> "preset"]

\* variant: the file opened with "a"
AppendToFile(old, content) == old \o <<content>>
\* open(filename, "w") empties the file; file.write(html_content) fills it
WriteFile(old, content) == <<content>>

\* the status-message component before any save
NoMessage == ""

\* the message save_to_folder returns (in the source it is in Russian)
StatusSaved == "HTML saved as: phylogenetic_tree.html"

\* ------------------------------------------------------------------ state

VARIABLES
    tree,            \* the parsed tree (Phylo.read)
    pc,              \* where the program is
    error,           \* the exception that ended it, or NoError
    col_positions,   \* get_col_positions(tree)
    positions,       \* the dict get_row_positions fills and returns
    calc_stack,      \* the calls of calc_row in progress: [clade, n]
    nodes, edges,    \* the lists add_to_elements appends to
    add_stack,       \* the calls of add_to_elements in progress: [clade, id, n, idx]
    elements,        \* nodes + edges
    stylesheet,      \* the module's stylesheet list
    hover,           \* the source of the last mouseoverEdgeData, or None
    cy_stylesheet,   \* the stylesheet property of the cytoscape component
    status_message,  \* the children of the status-message component
    n_clicks,        \* clicks of the save button so far
    file             \* phylogenetic_tree.html: what has been written to it

vars == <<tree, pc, error, col_positions, positions, calc_stack, nodes, edges,
          add_stack, elements, stylesheet, hover, cy_stylesheet, status_message,
          n_clicks, file>>

layoutVars == <<col_positions, positions, calc_stack>>
elementVars == <<nodes, edges, add_stack>>
serverVars == <<elements, stylesheet, hover, cy_stylesheet, status_message,
                n_clicks, file>>

Init ==
    /\ tree \in TreeSet
    /\ pc = "get_col_positions"
    /\ error = NoError
    /\ col_positions = << >>
    /\ positions = << >>
    /\ calc_stack = << >>
    /\ nodes = << >>
    /\ edges = << >>
    /\ add_stack = << >>
    /\ elements = << >>
    /\ stylesheet = << >>
    /\ hover = None
    /\ cy_stylesheet = << >>
    /\ status_message = NoMessage
    /\ n_clicks = 0
    /\ file = << >>

Raise(exc) ==
    /\ pc' = "crashed"
    /\ error' = exc

\* ---------------------------------------------------- generate_elements

\* col_positions = get_col_positions(tree)
GetColPositions ==
    /\ pc = "get_col_positions"
    /\ ~ColDividesByZero(tree)
    /\ col_positions' = get_col_positions(tree)
    /\ pc' = "get_row_positions"
    /\ UNCHANGED <<tree, error, positions, calc_stack, elementVars, serverVars>>

\* the division by max(depths.values()) = 0
GetColPositionsRaises ==
    /\ pc = "get_col_positions"
    /\ ColDividesByZero(tree)
    /\ Raise("ZeroDivisionError")
    /\ UNCHANGED <<tree, layoutVars, elementVars, serverVars>>

\* get_row_positions up to the call calc_row(tree.root)
GetRowPositions ==
    /\ pc = "get_row_positions"
    /\ positions' = LeafPositions(tree)
    /\ calc_stack' = <<[clade |-> Root, n |-> 0]>>
    /\ pc' = "calc_row"
    /\ UNCHANGED <<tree, error, col_positions, elementVars, serverVars>>

CalcTop == calc_stack[Len(calc_stack)]

CalcAdvanced == [calc_stack EXCEPT ![Len(calc_stack)].n = @ + 1]

\* "for subclade in clade: if subclade not in positions: calc_row(subclade)"
CalcRowCall ==
    /\ pc = "calc_row"
    /\ calc_stack # << >>
    /\ CalcTop.n < NumChildren(tree.shape, CalcTop.clade)
    /\ Child(CalcTop.clade, CalcTop.n) \notin DOMAIN positions
    /\ calc_stack' = Append(CalcAdvanced, [clade |-> Child(CalcTop.clade, CalcTop.n), n |-> 0])
    /\ UNCHANGED <<tree, pc, error, col_positions, positions, elementVars, serverVars>>

\* the subclade is in positions already
CalcRowSkip ==
    /\ pc = "calc_row"
    /\ calc_stack # << >>
    /\ CalcTop.n < NumChildren(tree.shape, CalcTop.clade)
    /\ Child(CalcTop.clade, CalcTop.n) \in DOMAIN positions
    /\ calc_stack' = CalcAdvanced
    /\ UNCHANGED <<tree, pc, error, col_positions, positions, elementVars, serverVars>>

SetItem(d, k, v) == [x \in DOMAIN d \cup {k} |-> IF x = k THEN v ELSE d[x]]

\* "positions[clade] = (positions[clade.clades[0]] + positions[clade.clades[-1]]) // 2"
CalcRowAssign ==
    /\ pc = "calc_row"
    /\ calc_stack # << >>
    /\ LET c == CalcTop.clade
           k == NumChildren(tree.shape, c)
       IN  /\ CalcTop.n = k
           /\ k > 0
           /\ positions' = SetItem(positions, c,
                                   MidRow(positions[Child(c, 0)], positions[Child(c, k - 1)]))
    /\ calc_stack' = SubSeq(calc_stack, 1, Len(calc_stack) - 1)
    /\ UNCHANGED <<tree, pc, error, col_positions, elementVars, serverVars>>

\* clade.clades[0] of a clade without children
CalcRowRaises ==
    /\ pc = "calc_row"
    /\ calc_stack # << >>
    /\ CalcTop.n = 0
    /\ NumChildren(tree.shape, CalcTop.clade) = 0
    /\ Raise("IndexError")
    /\ UNCHANGED <<tree, layoutVars, elementVars, serverVars>>

\* calc_row(tree.root) has returned: nodes = [], edges = [], add_to_elements(tree.clade, "r")
AddRoot ==
    /\ pc = "calc_row"
    /\ calc_stack = << >>
    /\ nodes' = <<CySource(tree, col_positions, positions, Root, <<"r">>)>>
    /\ edges' = << >>
    /\ add_stack' = <<[clade |-> Root, id |-> <<"r">>, n |-> 0, idx |-> 1]>>
    /\ pc' = "add_to_elements"
    /\ UNCHANGED <<tree, error, layoutVars, serverVars>>

AddTop == add_stack[Len(add_stack)]

\* one turn of "for n, child in enumerate(children)", up to and with the first
\* statements of the call add_to_elements(child, child_id)
AddChild ==
    /\ pc = "add_to_elements"
    /\ add_stack # << >>
    /\ LET c == AddTop.clade
           id == AddTop.id
           n == AddTop.n
           child_id == ChildId(id, n)
           marked == WithConfidence(nodes, AddTop.idx, c)
       IN  /\ n < NumChildren(tree.shape, c)
           /\ nodes' = NodesAfterChild(marked,
                          CySupportNode(col_positions, positions, c, id, n),
                          CySource(tree, col_positions, positions, Child(c, n), child_id))
           /\ edges' = edges \o <<CySupportEdge(id, n), CyEdge(tree, c, id, n)>>
           /\ add_stack' = Append([add_stack EXCEPT ![Len(add_stack)].n = n + 1],
                                  [clade |-> Child(c, n), id |-> child_id, n |-> 0,
                                   idx |-> Len(nodes')])
    /\ UNCHANGED <<tree, pc, error, layoutVars, serverVars>>

\* the loop of a call is over: the call returns
AddReturn ==
    /\ pc = "add_to_elements"
    /\ add_stack # << >>
    /\ AddTop.n = NumChildren(tree.shape, AddTop.clade)
    /\ add_stack' = SubSeq(add_stack, 1, Len(add_stack) - 1)
    /\ UNCHANGED <<tree, pc, error, layoutVars, nodes, edges, serverVars>>

\* ------------------------------------------------------------ module level

\* elements = nodes + edges; the stylesheet; the layout of the page
Startup ==
    /\ pc = "add_to_elements"
    /\ add_stack = << >>
    /\ elements' = nodes \o edges
    /\ stylesheet' = ModuleStylesheet
    /\ cy_stylesheet' = ModuleStylesheet
    /\ pc' = "serving"
    /\ UNCHANGED <<tree, error, layoutVars, elementVars, hover, status_message,
                   n_clicks, file>>

\* the edges of the page: the elements with a source
PageEdges == {elements[i] : i \in (Len(nodes) + 1)..Len(elements)}

\* mouseoverEdgeData: the data of an edge of the page; color_children reads
\* its source alone, so one edge per source is taken
HoverData == {CHOOSE e \in PageEdges : e.source = s : s \in {e.source : e \in PageEdges}}

\* color_children(edgeData) for the data of a hovered edge
ColorChildren ==
    /\ pc = "serving"
    /\ \E e \in HoverData :
          LET r == color_children(stylesheet, Some(e))
          IN  /\ cy_stylesheet' = r.ret
              /\ stylesheet' = r.shared
              /\ hover' = Some(e.source)
    /\ UNCHANGED <<tree, pc, error, layoutVars, elementVars, elements,
                   status_message, n_clicks, file>>

\* color_children(None)
ColorChildrenNone ==
    /\ pc = "serving"
    /\ LET r == color_children(stylesheet, None)
       IN  /\ cy_stylesheet' = r.ret
           /\ stylesheet' = r.shared
    /\ hover' = None
    /\ UNCHANGED <<tree, pc, error, layoutVars, elementVars, elements,
                   status_message, n_clicks, file>>

\* save_to_folder(n_clicks)
SaveToFolder ==
    /\ pc = "serving"
    /\ n_clicks < MaxClicks
    /\ n_clicks' = n_clicks + 1
    /\ file' = WriteFile(file, HtmlContent(elements, stylesheet))
    /\ status_message' = StatusSaved
    /\ UNCHANGED <<tree, pc, error, layoutVars, elementVars, elements, stylesheet,
                   hover, cy_stylesheet>>

Next ==
    \/ GetColPositions
    \/ GetColPositionsRaises
    \/ GetRowPositions
    \/ CalcRowCall
    \/ CalcRowSkip
    \/ CalcRowAssign
    \/ CalcRowRaises
    \/ AddRoot
    \/ AddChild
    \/ AddReturn
    \/ Startup
    \/ ColorChildren
    \/ ColorChildrenNone
    \/ SaveToFolder

Spec == Init /\ [][Next]_vars

\* ------------------------------------------------------------------ claims

Clades == tree.shape
Leaves == {p \in Clades : is_terminal(tree.shape, p)}
Internal == Clades \ Leaves

\* the order of a depth-first traversal that visits children in stored order:
\* at the first index where two paths differ, the smaller child comes first
VisitedBefore(p, q) ==
    /\ p # q
    /\ \/ IsPrefix(p, q)
       \/ \E k \in 1..Len(p) :
             /\ k <= Len(q)
             /\ SubSeq(p, 1, k - 1) = SubSeq(q, 1, k - 1)
             /\ p[k] < q[k]

RowsDone == pc \in {"add_to_elements", "serving"} \/ (pc = "calc_row" /\ calc_stack = << >>)

\* ((A,B),C)
ExampleShape == {Root, <<0>>, <<0, 0>>, <<0, 1>>, <<1>>}

IsFloorOfHalf(r, sum) == 2 * r <= sum /\ sum < 2 * r + 2

\* C1: the row of every internal clade that has a row is the floor of half the sum
\* of the rows of its first and of its last child, and once the rows of ((A,B),C)
\* are computed they are A=0, B=2, C=4, (A,B)=1 and root=2
C1_InternalRowIsMidpoint ==
    /\ \A p \in Internal \cap DOMAIN positions :
          /\ Child(p, 0) \in DOMAIN positions
          /\ Child(p, NumChildren(tree.shape, p) - 1) \in DOMAIN positions
          /\ IsFloorOfHalf(positions[p],
                           positions[Child(p, 0)]
                             + positions[Child(p, NumChildren(tree.shape, p) - 1)])
    /\ RowsDone => Internal \subseteq DOMAIN positions
    /\ (RowsDone /\ tree.shape = ExampleShape) =>
          /\ positions[<<0, 0>>] = 0
          /\ positions[<<0, 1>>] = 2
          /\ positions[<<1>>] = 4
          /\ positions[<<0>>] = 1
          /\ positions[Root] = 2

\* the rows of a tree with a clade of three children, first and last apart, are done
C1_Witness ==
    /\ RowsDone
    /\ \E p \in Internal :
          /\ NumChildren(tree.shape, p) >= 3
          /\ positions[Child(p, 1)] # positions[p]
    /\ \E p \in Internal : p # Root /\ NumChildren(tree.shape, p) = 1

\* C2: in a tree of two leaves or more, from the moment get_row_positions has
\* built its dict, the row of every leaf is twice the number of leaves visited
\* before it, so the rows of the k leaves are 0, 2, ..., 2(k-1), while and after
\* the rows of the internal clades are computed
C2_LeafRowsEvenInOrder ==
    (Cardinality(Leaves) >= 2 /\ pc \in {"calc_row", "add_to_elements", "serving"}) =>
        /\ Leaves \subseteq DOMAIN positions
        /\ \A l \in Leaves :
              positions[l] = 2 * Cardinality({m \in Leaves : VisitedBefore(m, l)})
        /\ {positions[l] : l \in Leaves} = {2 * i : i \in 0..(Cardinality(Leaves) - 1)}

\* the internal rows of a tree of three leaves or more, not all of them children
\* of the root, have been computed
C2_Witness ==
    /\ RowsDone
    /\ Cardinality(Leaves) >= 3
    /\ \E l \in Leaves : Len(l) >= 2
    /\ Internal \subseteq DOMAIN positions

\* C3: once the columns are computed, the column of a clade is never smaller
\* than the column of its parent (the branch lengths of every tree are >= 0)
C3_ColumnsMonotone ==
    pc \notin {"get_col_positions", "crashed"} =>
        /\ DOMAIN col_positions = Clades
        /\ \A p \in Clades \ {Root} : col_positions[p] >= col_positions[Parent(p)]

\* columns of a tree with a set and an unset branch length and a first leaf whose
\* name is longer than the line: a clade right of its parent, another in its column
C3_Witness ==
    /\ pc = "get_row_positions"
    /\ tree.name[FirstLeaf(tree.shape)] > column_width
    /\ \E p \in Clades \ {Root} : col_positions[p] > col_positions[Parent(p)]
    /\ \E p \in Clades \ {Root} : col_positions[p] = col_positions[Parent(p)]
    /\ \E p, q \in Clades : tree.bl[p] = 0 /\ tree.bl[q] > 1

\* generate_elements has just returned its two lists
Returned == pc = "add_to_elements" /\ add_stack = << >>

\* the returned nodes, by class
NodeIndexes == 1..Len(nodes)
SupportIndexes == {i \in NodeIndexes : nodes[i].classes = "support"}
CladeIndexes == NodeIndexes \ SupportIndexes
EdgeIndexes == 1..Len(edges)

\* n of a clade below the root: its place among its parent's children
IndexInParent(p) == p[Len(p)]

\* C4: in the lists generate_elements returns, every clade below the root has one
\* support node, at the x of its parent and the y of the clade itself, one edge
\* from its parent to that node and one edge from that node to the clade; there
\* are no other support nodes and no other edges
C4_OneSupportTwoEdgesPerChild ==
    Returned =>
        /\ \A p \in Clades \ {Root} :
              LET parent_id == CladeId(Parent(p))
                  support_id == SupportId(parent_id, IndexInParent(p))
                  supports == {i \in SupportIndexes : nodes[i].id = support_id}
              IN  /\ Cardinality(supports) = 1
                  /\ \A i \in supports :
                        /\ nodes[i].x = col_positions[Parent(p)] * xlen
                        /\ nodes[i].y = positions[p] * ylen
                  /\ Cardinality({j \in EdgeIndexes :
                        edges[j].source = parent_id /\ edges[j].target = support_id}) = 1
                  /\ Cardinality({j \in EdgeIndexes :
                        edges[j].source = support_id /\ edges[j].target = CladeId(p)}) = 1
        /\ Cardinality(SupportIndexes) = Cardinality(Clades) - 1
        /\ Len(edges) = 2 * (Cardinality(Clades) - 1)

\* the elements of a tree where some clade is on another row than its parent
C4_Witness ==
    /\ Returned
    /\ \E p \in Clades \ {Root} : positions[p] # positions[Parent(p)]
    /\ \E p \in Clades \ {Root} : Len(p) >= 2
    /\ Len(edges) >= 8

\* C5 as stated: the number of nodes is twice the number of clades less the
\* number of leaves
C5_NodeCountLessLeaves ==
    Returned => Len(nodes) = 2 * Cardinality(Clades) - Cardinality(Leaves)

\* C5, amended: the number of nodes generate_elements returns is the number of
\* clades plus the number of support nodes, which is twice the number of clades
\* less one, every clade but the root contributing one support node
C5_NodeCountLessOne ==
    Returned =>
        /\ Cardinality(CladeIndexes) = Cardinality(Clades)
        /\ Cardinality(SupportIndexes) = Cardinality(Clades \ {Root})
        /\ Len(nodes) = Cardinality(Clades) + Cardinality(SupportIndexes)
        /\ Len(nodes) = 2 * Cardinality(Clades) - 1

\* the elements of a tree with several leaves
C5_Witness ==
    /\ Returned
    /\ Cardinality(Leaves) >= 3
    /\ Len(nodes) = 9

\* C6: in the lists generate_elements returns, every clade has exactly one node
\* that is not a support node, under the identifier built from "r" along its
\* path; no two nodes share an identifier; the source and the target of every
\* edge are identifiers of nodes
C6_IdentifiersDistinct ==
    Returned =>
        /\ \A p \in Clades :
              Cardinality({i \in CladeIndexes : nodes[i].id = CladeId(p)}) = 1
        /\ Cardinality(CladeIndexes) = Cardinality(Clades)
        /\ \A i, j \in NodeIndexes : nodes[i].id = nodes[j].id => i = j
        /\ \A j \in EdgeIndexes :
              /\ \E i \in NodeIndexes : nodes[i].id = edges[j].source
              /\ \E i \in NodeIndexes : nodes[i].id = edges[j].target

\* the elements of a tree whose root has more than ten children, the second and
\* the eleventh of them with a child of their own
C6_Witness ==
    /\ Returned
    /\ NumChildren(tree.shape, Root) > 10
    /\ <<1, 0>> \in Clades
    /\ <<10, 0>> \in Clades
    /\ \E i \in NodeIndexes : nodes[i].id = <<"r", "c", "1", "0", "c", "0">>

\* the clade add_to_elements gave the identifier id
CladeOfId(id) == CHOOSE p \in Clades : CladeId(p) = id

\* the clade an edge of the page starts from (at the clade or at one of its
\* support nodes)
CladeOfEdge(e) == CladeOfId(e.sourceCladeId)

\* C7: after a hover over an edge, the stylesheet of the page is the module's
\* stylesheet and one more rule, and that rule matches an edge of the page if and
\* only if the edge starts in the subtree of the clade the hovered edge starts from
C7_HoverHighlightsSubtree ==
    (pc = "serving" /\ hover # None) =>
        LET hovered == CHOOSE e \in PageEdges : e.source = hover[1]
            rule == cy_stylesheet[Len(cy_stylesheet)]
        IN  /\ cy_stylesheet = stylesheet \o <<rule>>
            /\ rule.selector.arg = CladeId(CladeOfEdge(hovered))
            /\ \A e \in PageEdges :
                  RuleMatchesEdge(rule, e) <=> IsPrefix(CladeOfEdge(hovered), CladeOfEdge(e))

\* a tree of one leaf, or of depth 0 with unit branch lengths as well (a chain
\* down to one leaf is laid out; the tree of a single clade is not)
Degenerate(t) == Len(get_terminals(t)) = 1 \/ ColDividesByZero(t)

\* C8: generate_elements of a degenerate tree does not end in a division by
\* zero or in an index error: it ends, if in an error, in a layout error
C8_DegenerateTreeGuarded ==
    Degenerate(tree) =>
        /\ error \notin {"ZeroDivisionError", "IndexError"}
        /\ pc = "crashed" => error = "LayoutError"

\* C9: after one save or more, phylogenetic_tree.html holds the page of the
\* computed nodes and edges and of the stylesheet, once, whatever the number of
\* saves, and the status message is the one of a successful save; before the
\* first save nothing is written
C9_SaveIsIdempotent ==
    pc = "serving" =>
        /\ n_clicks = 0 => file = << >> /\ status_message = NoMessage
        /\ n_clicks >= 1 =>
              /\ file = <<HtmlContent(nodes \o edges, ModuleStylesheet)>>
              /\ status_message = StatusSaved

\* a second save, after a hover over an edge
C9_Witness ==
    /\ pc = "serving"
    /\ n_clicks >= 2
    /\ hover # None
    /\ Len(file) = 1
    /\ Len(file[1].elements) >= 7

\* C10: while the page is served, the element list is the nodes and edges
\* generate_elements returned and the module's stylesheet is the one built at
\* startup, whatever hovers and saves have happened; after a hover with no edge
\* data the page has exactly the startup stylesheet
C10_ServingLeavesGlobalsAlone ==
    pc = "serving" =>
        /\ elements = nodes \o edges
        /\ stylesheet = ModuleStylesheet
        /\ hover = None => cy_stylesheet = ModuleStylesheet
        /\ hover # None => Len(cy_stylesheet) = Len(ModuleStylesheet) + 1

\* a hover over an edge and a save have happened
C10_Witness ==
    /\ pc = "serving"
    /\ hover # None
    /\ cy_stylesheet # stylesheet
    /\ n_clicks >= 1

====
